---------------------------- MODULE Spec2Model ----------------------------
(***************************************************************************)
(* Air Quality Monitor (Svelte component, src/unnamed/part_001).           *)
(*                                                                         *)
(* The component is modelled as the JavaScript event loop runs it: one     *)
(* action per macrotask (a timer firing, a geolocation callback, a network *)
(* response, a user event).  Everything the handler does before it next    *)
(* waits for a macrotask -- promise continuations, Svelte's flush and the  *)
(* reactive statements it runs -- is part of the same action.              *)
(*                                                                         *)
(* Coordinates are integers in units of 1e-4 degree, times are             *)
(* milliseconds on a clock that starts at StartTime.                       *)
(***************************************************************************)
EXTENDS Integers, Sequences, FiniteSets, TLC

VARIABLES
    \* component state (part_001 lines 16-43, 70-71)
    loading, error, currentAQI, pollutants, forecastData, lastUpdateTime,
    location, latitude, longitude,
    mapContainer, chartCanvas, chart, mapView, pollutionLayer,
    \* the browser: localStorage entry, clock, geolocation capability, timers
    storage, now, geolocation, timers,
    \* position of initializeApp / getUserLocation
    pc, attempt, resolved, ticks,
    \* asynchronous operations in flight
    aqReqs, nameReqs, mapReqs, watches, nextId,
    \* which fetchAirQuality call wrote each displayed datum (0: initial value)
    \* and the coordinate the reading and the forecast were requested for
    shown,
    \* the last call of a pure function: [fn, arg, ret]
    pcall,
    \* the theme: darkMode, the system colour scheme (dark or not), and the
    \* value of darkMode the chart was drawn with
    darkMode, prefersDark, chartDark,
    \* the search field (lines 23-26, 871): its text, the results listed, the
    \* spinner, the inline message, the lookups in flight
    locationInput, searchResults, isSearching, searchError, searchReqs,
    \* what the user did at the search field: the number of keystrokes, the
    \* time of the last one, the number of bursts begun, the number of calls
    \* of searchLocation they led to, the last of these calls that sent a
    \* lookup, and the number of results picked
    typed

viewVars == <<loading, error, currentAQI, pollutants, forecastData, lastUpdateTime,
              location, latitude, longitude, mapContainer, chartCanvas, chart,
              mapView, pollutionLayer>>
envVars  == <<storage, now, geolocation, timers>>
ctlVars  == <<pc, attempt, resolved, ticks>>
reqVars  == <<aqReqs, nameReqs, mapReqs, watches, nextId>>
themeVars  == <<darkMode, prefersDark, chartDark>>
searchVars == <<locationInput, searchResults, isSearching, searchError, searchReqs, typed>>
vars     == <<viewVars, envVars, ctlVars, reqVars, shown, pcall, themeVars, searchVars>>

-----------------------------------------------------------------------------
(* Bounds of the model *)

\* how many fetchAirQuality calls the environment sets off in a run: the
\* refresh interval stops firing, and the device stops reporting a move,
\* once this many calls were made
MaxFetches == 3
\* the largest index value handed to getAQIColor / getAQIDescription
MaxIndex == 305
\* the largest provider category handed to convertOpenWeatherMapAQI
MaxCategory == 8
\* the clock value at construction (ms)
StartTime == 3600000
\* how many milliseconds around an instant the cache is looked at
MaxPureClock == 2
\* how many times the user changes the text of the search field
MaxKeys == 3
\* the highest concentration of a pollutant, in fifths of its guideline
MaxLevel == 2
\* how many times the user picks a listed result
MaxPicks == 1
\* the pause before a keystroke, in milliseconds (shorter than the debounce
\* delay, so that a keystroke can come while the timer is pending)
KeyGap == 100

-----------------------------------------------------------------------------
(* Optional values: JavaScript null / undefined *)

None == << >>
Some(x) == <<x>>

Min(a, b) == IF a < b THEN a ELSE b
Abs(a) == IF a < 0 THEN 0 - a ELSE a

-----------------------------------------------------------------------------
(* Program constants *)

\* let latitude = 40.7128; let longitude = -74.0060
DEFAULT_LATITUDE == 407128
DEFAULT_LONGITUDE == 0 - 740060

CACHE_EXPIRY_TIME == 30 * 60 * 1000
GEOLOCATION_TIMEOUT == 8000
WATCH_TIMEOUT == 12000
REFRESH_INTERVAL == 5 * 60 * 1000
SEARCH_DELAY == 300
FORECAST_POINTS == 24

AQ_ERROR == "Failed to fetch air quality data. Please try again later."
NO_ERROR == "null"

-----------------------------------------------------------------------------
(* convertOpenWeatherMapAQI: conversion[owmAQI] || owmAQI *)

conversion == (1 :> 20) @@ (2 :> 60) @@ (3 :> 120) @@ (4 :> 180) @@ (5 :> 250)

\* a plausible slip: the table holds the upper band edge for category 5
conversion_UpperEdge == (1 :> 20) @@ (2 :> 60) @@ (3 :> 120) @@ (4 :> 180) @@ (5 :> 300)

\* conversion[owmAQI]: undefined for a key the object does not hold
Lookup(table, key) == IF key \in DOMAIN table THEN Some(table[key]) ELSE None

\* a || b on an optional number: b when a is undefined or 0
OrElse(a, b) == IF a # None /\ a[1] # 0 THEN a[1] ELSE b

convertOpenWeatherMapAQI_UpperEdge(owmAQI) ==
    OrElse(Lookup(conversion_UpperEdge, owmAQI), owmAQI)

convertOpenWeatherMapAQI(owmAQI) ==
    OrElse(Lookup(conversion, owmAQI), owmAQI)

-----------------------------------------------------------------------------
(* getAQIColor / getAQIDescription on a number *)

GREEN  == "#22c55e"
YELLOW == "#eab308"
ORANGE == "#f97316"
RED    == "#ef4444"
PURPLE == "#8F3F97"
GRAY   == "#6b7280"

\* a plausible slip: the 1..5 branch is applied to 1..50
getAQIColor_Wide(aqi) ==
    IF aqi >= 1 /\ aqi <= 50
    THEN CASE aqi = 1 -> GREEN
           [] aqi = 2 -> YELLOW
           [] aqi = 3 -> ORANGE
           [] aqi = 4 -> RED
           [] aqi = 5 -> PURPLE
           [] OTHER   -> GRAY
    ELSE IF aqi <= 50 THEN GREEN
    ELSE IF aqi <= 100 THEN YELLOW
    ELSE IF aqi <= 150 THEN ORANGE
    ELSE IF aqi <= 200 THEN RED
    ELSE IF aqi <= 300 THEN PURPLE
    ELSE GRAY

getAQIColor(aqi) ==
    IF aqi >= 1 /\ aqi <= 5
    THEN CASE aqi = 1 -> GREEN
           [] aqi = 2 -> YELLOW
           [] aqi = 3 -> ORANGE
           [] aqi = 4 -> RED
           [] aqi = 5 -> PURPLE
           [] OTHER   -> GRAY
    ELSE IF aqi <= 50 THEN GREEN
    ELSE IF aqi <= 100 THEN YELLOW
    ELSE IF aqi <= 150 THEN ORANGE
    ELSE IF aqi <= 200 THEN RED
    ELSE IF aqi <= 300 THEN PURPLE
    ELSE GRAY

getAQIDescription(aqi) ==
    IF aqi >= 1 /\ aqi <= 5
    THEN CASE aqi = 1 -> "Good"
           [] aqi = 2 -> "Fair"
           [] aqi = 3 -> "Moderate"
           [] aqi = 4 -> "Poor"
           [] aqi = 5 -> "Very Poor"
           [] OTHER   -> "Unknown"
    ELSE IF aqi <= 50 THEN "Good"
    ELSE IF aqi <= 100 THEN "Moderate"
    ELSE IF aqi <= 150 THEN "Unhealthy for Sensitive Groups"
    ELSE IF aqi <= 200 THEN "Unhealthy"
    ELSE IF aqi <= 300 THEN "Very Unhealthy"
    ELSE "Hazardous"

getAQIStatus(aqi) == getAQIDescription(aqi)

-----------------------------------------------------------------------------
(* The position cache in localStorage *)

NoItem == [kind |-> "none"]
\* an item that JSON.parse rejects, or that lacks the fields
BadItem == [kind |-> "unparseable"]
Item(lat, lon, timestamp) ==
    [kind |-> "record", lat |-> lat, lon |-> lon, timestamp |-> timestamp]

\* a plausible slip: the freshness test is inverted
getCachedPosition_Inverted(item, clock) ==
    IF item.kind = "record" /\ clock - item.timestamp > CACHE_EXPIRY_TIME
    THEN Some([latitude |-> item.lat, longitude |-> item.lon])
    ELSE None

getCachedPosition(item, clock) ==
    IF item.kind = "record" /\ clock - item.timestamp < CACHE_EXPIRY_TIME
    THEN Some([latitude |-> item.lat, longitude |-> item.lon])
    ELSE None

cachePosition(lat, lon, clock) == Item(lat, lon, clock)

-----------------------------------------------------------------------------
(* calculateDistance: the haversine distance, in centimetres.              *)
(* The modelled fixes lie within 0.01 degree of the default coordinate,    *)
(* where sin x = x, atan2(sqrt a, sqrt(1-a)) = sqrt a and                  *)
(* cos(lat1) cos(lat2) = cos(40.71 deg)^2 hold to four digits, so          *)
(*   R c = R sqrt(dLat^2 + cos^2 dLon^2)                                   *)
(* with pi = 355/113.  Beyond SMALL_ANGLE units the operands of the sum    *)
(* leave the 32-bit integers and the result is the lower bound             *)
(* SMALL_ANGLE * UNIT_LON_CM, which is what comparisons with the           *)
(* threshold need.                                                         *)

EARTH_RADIUS_KM == 6371
\* cos(40.7128 deg) * 1000
COS_LATITUDE_X1000 == 758
\* distance > 0.1 (km), in centimetres
SIGNIFICANT_DISTANCE_CM == 10000
SMALL_ANGLE == 30

\* centimetres per 1e-4 degree of latitude: R * 1e5 * (pi/180) * 1e-4, rounded
UNIT_LAT_CM == ((EARTH_RADIUS_KM * 100 * 355) \div (113 * 180) + 5) \div 10
\* centimetres per 1e-4 degree of longitude at the modelled latitude
UNIT_LON_CM == (UNIT_LAT_CM * COS_LATITUDE_X1000) \div 1000

RECURSIVE IsqrtFrom(_, _)
IsqrtFrom(n, x) ==
    LET y == (x + n \div x) \div 2
    IN  IF y >= x THEN x ELSE IsqrtFrom(n, y)

\* Math.sqrt, rounded down
Isqrt(n) == IF n = 0 THEN 0 ELSE IsqrtFrom(n, n)

\* a plausible slip: the result is taken for metres, so 0.1 reads as 0.1 m
calculateDistance_Metres(lat1, lon1, lat2, lon2) ==
    LET dLat == Abs(lat2 - lat1) * UNIT_LAT_CM
        dLon == Abs(lon2 - lon1) * UNIT_LON_CM
    IN  IF Abs(lat2 - lat1) > SMALL_ANGLE \/ Abs(lon2 - lon1) > SMALL_ANGLE
        THEN SMALL_ANGLE * UNIT_LON_CM * 1000
        ELSE Isqrt(dLat * dLat + dLon * dLon) * 1000

calculateDistance(lat1, lon1, lat2, lon2) ==
    LET dLat == Abs(lat2 - lat1) * UNIT_LAT_CM
        dLon == Abs(lon2 - lon1) * UNIT_LON_CM
    IN  IF Abs(lat2 - lat1) > SMALL_ANGLE \/ Abs(lon2 - lon1) > SMALL_ANGLE
        THEN SMALL_ANGLE * UNIT_LON_CM
        ELSE Isqrt(dLat * dLat + dLon * dLon)

-----------------------------------------------------------------------------
(* Inputs: what the device, the storage and the provider can hand over *)

Coord(lat, lon) == [latitude |-> lat, longitude |-> lon]

\* 8 units (89 m) north of the default coordinate
NEAR_FIX == Coord(DEFAULT_LATITUDE + 8, DEFAULT_LONGITUDE)
\* 12 units (101 m) east of the default coordinate
EAST_FIX == Coord(DEFAULT_LATITUDE, DEFAULT_LONGITUDE + 12)
\* 9 units (100.08 m) north of the default coordinate, 11 m from NEAR_FIX
CACHED_FIX == Coord(DEFAULT_LATITUDE + 9, DEFAULT_LONGITUDE)

DeviceFixes == {NEAR_FIX, EAST_FIX}

\* the localStorage entry found at startup
InitialItems ==
    {NoItem, BadItem,
     Item(CACHED_FIX.latitude, CACHED_FIX.longitude, StartTime - CACHE_EXPIRY_TIME + 1),
     Item(CACHED_FIX.latitude, CACHED_FIX.longitude, StartTime - CACHE_EXPIRY_TIME - 1)}

Components(a, b, c, d, e, f) ==
    [pm2_5 |-> a, pm10 |-> b, no2 |-> c, so2 |-> d, o3 |-> e, co |-> f]

\* list[0] of a current-conditions payload
GOOD_ENTRY == [dt |-> 1000, aqi |-> 2, components |-> Components(30, 20, 10, 5, 50, 2000)]
POOR_ENTRY == [dt |-> 2000, aqi |-> 4, components |-> Components(80, 90, 40, 10, 120, 6000)]

\* the list of a forecast payload
LONG_FORECAST == <<[dt |-> 1100, aqi |-> 1], [dt |-> 1200, aqi |-> 3]>>
SHORT_FORECAST == <<[dt |-> 2100, aqi |-> 5]>>

\* a pair of parsed bodies: the list of either is missing, empty or filled
Bodies(currentList, forecastList) ==
    [current |-> [list |-> currentList], forecast |-> [list |-> forecastList]]

\* the pairs of bodies the provider answers with: both lists filled, the
\* forecast list empty or missing, the current list missing or empty
ProviderBodies ==
    {Bodies(Some(<<GOOD_ENTRY>>), Some(LONG_FORECAST)),
     Bodies(Some(<<POOR_ENTRY>>), Some(SHORT_FORECAST)),
     Bodies(Some(<<GOOD_ENTRY>>), Some(<< >>)),
     Bodies(Some(<<POOR_ENTRY>>), None),
     Bodies(None, Some(LONG_FORECAST)),
     Bodies(Some(<< >>), Some(SHORT_FORECAST))}

-----------------------------------------------------------------------------
(* Records of operations in flight *)

\* one fetchAirQuality call: its two requests carry the coordinate read at
\* the call; src is the call site, cycle the refresh cycle it belongs to
AqReq(id, lat, lon, src, cycle) ==
    [id |-> id, lat |-> lat, lon |-> lon, stage |-> "sent", src |-> src, cycle |-> cycle]

\* one fetchLocationName call
NameReq(id, lat, lon, src) ==
    [id |-> id, lat |-> lat, lon |-> lon, stage |-> "weather", src |-> src]

Timer(kind, id, deadline) == [kind |-> kind, id |-> id, deadline |-> deadline]

\* timers fire in the order of their deadlines
Due(t) == t \in timers /\ \A u \in timers : t.deadline <= u.deadline

Later(t) == IF t.deadline > now THEN t.deadline ELSE now

\* Promise.all of initializeApp (lines 953-956) is still waiting
InitPending(aq, nm) ==
    (\E r \in aq : r.src = "init") \/ (\E q \in nm : q.src = "init")

\* forecastDataResponse.list.slice(0, 24)
Slice(list) == SubSeq(list, 1, Min(Len(list), FORECAST_POINTS))

\* aqi_data of updateChart
Series(data) == [i \in 1..Len(data) |-> convertOpenWeatherMapAQI(data[i].aqi)]

NO_LOCATION == << >>
LOCATION_UNAVAILABLE == <<0>>
PlaceName(lat, lon) == <<lat, lon>>

-----------------------------------------------------------------------------
\* the component as constructed (lines 16-43, 70-71), before onMount
Constructed ==
    /\ loading = TRUE
    /\ error = NO_ERROR
    /\ currentAQI = 0
    /\ pollutants = [PM2_5 |-> 0, PM10 |-> 0, NO2 |-> 0, SO2 |-> 0, O3 |-> 0, CO |-> 0]
    /\ forecastData = << >>
    /\ lastUpdateTime = None
    /\ location = NO_LOCATION
    /\ latitude = DEFAULT_LATITUDE
    /\ longitude = DEFAULT_LONGITUDE
    /\ mapContainer = FALSE
    /\ chartCanvas = FALSE
    /\ chart = None
    /\ mapView = None
    /\ pollutionLayer = None
    /\ timers = {}
    /\ pc = "unmounted"
    /\ attempt = "none"
    /\ resolved = FALSE
    /\ ticks = 0
    /\ aqReqs = {}
    /\ nameReqs = {}
    /\ mapReqs = {}
    /\ watches = {}
    /\ nextId = 1
    /\ shown = [aqi |-> 0, pollutants |-> 0, forecast |-> 0, chart |-> 0,
                at |-> Coord(0, 0), forecastAt |-> Coord(0, 0)]
    /\ now = StartTime
    /\ pcall = [fn |-> "none", arg |-> 0, ret |-> 0]
    /\ darkMode = FALSE
    /\ chartDark = FALSE
    /\ locationInput = << >>
    /\ searchResults = << >>
    /\ isSearching = FALSE
    /\ searchError = ""
    /\ searchReqs = {}
    /\ typed = [keys |-> 0, last |-> 0, bursts |-> 0, calls |-> 0, sent |-> 0, picks |-> 0]

Init ==
    /\ Constructed
    /\ storage \in InitialItems
    /\ geolocation \in BOOLEAN
    /\ prefersDark = FALSE

-----------------------------------------------------------------------------
(* Pieces of handlers *)

dataVars == <<currentAQI, pollutants, forecastData, lastUpdateTime>>

\* initializeApp lines 953-956: fetchLocationName() and fetchAirQuality()
\* are called, each reading the coordinate at the call
StartInitialFetch(lat, lon) ==
    /\ pc' = "fetching"
    /\ aqReqs' = aqReqs \cup {AqReq(nextId, lat, lon, "init", 0)}
    /\ nameReqs' = nameReqs \cup {NameReq(nextId, lat, lon, "init")}
    /\ nextId' = nextId + 1

\* resolve() of getUserLocation's promise; initializeApp, when it waits for
\* it, goes on in the same macrotask (await tick() is a microtask)
ResolveLocation(lat, lon) ==
    /\ resolved' = TRUE
    /\ IF pc = "locating"
       THEN StartInitialFetch(lat, lon)
       ELSE UNCHANGED <<pc, aqReqs, nameReqs, nextId>>

\* updateMap(lat, lon) up to its first await (lines 488-551), called
\* explicitly or by the reactive statement of lines 64-67 when the
\* coordinate changed; nothing happens without the map container
MoveMap(lat, lon, explicit) ==
    IF mapContainer /\ (explicit \/ lat # latitude \/ lon # longitude)
    THEN /\ mapView' = Some(Coord(lat, lon))
         /\ mapReqs' = mapReqs \cup {Coord(lat, lon)}
    ELSE UNCHANGED <<mapView, mapReqs>>

\* What follows the completion of a fetchAirQuality or fetchLocationName
\* call of source src, with aq and nm the calls still in flight, fd and sh
\* the forecast data and its provenance as the call leaves them, and redraw
\* telling whether it assigned forecastData.  When the call was the last one
\* initializeApp waited for (lines 958-976): the interval is set, loading
\* becomes false, Svelte renders the view, binds mapContainer and
\* chartCanvas, runs the reactive statements (lines 58-67), and onMount
\* calls updateMap (lines 983-994).
Settle(src, aq, nm, fd, sh, redraw) ==
    IF src = "init" /\ pc = "fetching" /\ ~InitPending(aq, nm)
    THEN /\ pc' = "ready"
         /\ loading' = FALSE
         /\ timers' = timers \cup {Timer("refresh", 0, now + REFRESH_INTERVAL)}
         /\ mapContainer' = TRUE
         /\ chartCanvas' = TRUE
         /\ chart' = IF Len(fd) > 0 THEN Some(Series(fd)) ELSE chart
         /\ chartDark' = IF Len(fd) > 0 THEN darkMode ELSE chartDark
         /\ shown' = IF Len(fd) > 0 THEN [sh EXCEPT !.chart = sh.forecast] ELSE sh
         /\ mapView' = Some(Coord(latitude, longitude))
         /\ mapReqs' = mapReqs \cup {Coord(latitude, longitude)}
    ELSE /\ UNCHANGED <<pc, loading, timers, mapContainer, chartCanvas, mapView, mapReqs>>
         /\ chart' = IF redraw /\ chartCanvas THEN Some(Series(fd)) ELSE chart
         /\ chartDark' = IF redraw /\ chartCanvas THEN darkMode ELSE chartDark
         /\ shown' = IF redraw /\ chartCanvas THEN [sh EXCEPT !.chart = sh.forecast] ELSE sh

-----------------------------------------------------------------------------
(* onMount -> initializeApp -> getUserLocation, up to the first wait *)

\* a plausible slip: getUserLocation() is not awaited
Mount_NoAwait ==
    /\ pc = "unmounted"
    /\ loading' = TRUE
    /\ error' = NO_ERROR
    /\ darkMode' = prefersDark
    /\ LET cachedPosition == getCachedPosition(storage, now)
       IN  IF cachedPosition # None
           THEN /\ latitude' = cachedPosition[1].latitude
                /\ longitude' = cachedPosition[1].longitude
                /\ resolved' = TRUE
                /\ attempt' = attempt
                /\ watches' = IF geolocation THEN {[cycle |-> 0]} ELSE watches
                /\ timers' = IF geolocation
                             THEN timers \cup {Timer("watch", 0, now + WATCH_TIMEOUT)}
                             ELSE timers
                /\ StartInitialFetch(latitude', longitude')
           ELSE IF geolocation
           THEN /\ timers' = timers \cup {Timer("geolocation", 0, now + GEOLOCATION_TIMEOUT)}
                /\ attempt' = "high"
                /\ StartInitialFetch(latitude, longitude)
                /\ UNCHANGED <<latitude, longitude, resolved, watches>>
           ELSE /\ resolved' = TRUE
                /\ StartInitialFetch(latitude, longitude)
                /\ UNCHANGED <<latitude, longitude, attempt, watches, timers>>
    /\ UNCHANGED <<dataVars, location, mapContainer, chartCanvas, chart, mapView,
                   pollutionLayer, storage, now, geolocation, ticks, mapReqs, shown, pcall,
                   searchVars, prefersDark, chartDark>>

Mount ==
    /\ pc = "unmounted"
    /\ loading' = TRUE
    /\ error' = NO_ERROR
    /\ darkMode' = prefersDark
    /\ LET cachedPosition == getCachedPosition(storage, now)
       IN  IF cachedPosition # None
           THEN \* lines 111-119: resolve(), then updatePositionInBackground()
                /\ latitude' = cachedPosition[1].latitude
                /\ longitude' = cachedPosition[1].longitude
                /\ resolved' = TRUE
                /\ attempt' = attempt
                /\ watches' = IF geolocation THEN {[cycle |-> 0]} ELSE watches
                /\ timers' = IF geolocation
                             THEN timers \cup {Timer("watch", 0, now + WATCH_TIMEOUT)}
                             ELSE timers
                /\ StartInitialFetch(latitude', longitude')
           ELSE IF geolocation
           THEN \* lines 122-140: the 8 s timer, the high-accuracy request
                /\ timers' = timers \cup {Timer("geolocation", 0, now + GEOLOCATION_TIMEOUT)}
                /\ attempt' = "high"
                /\ pc' = "locating"
                /\ UNCHANGED <<latitude, longitude, resolved, watches,
                               aqReqs, nameReqs, nextId>>
           ELSE \* line 175
                /\ resolved' = TRUE
                /\ StartInitialFetch(latitude, longitude)
                /\ UNCHANGED <<latitude, longitude, attempt, watches, timers>>
    /\ UNCHANGED <<dataVars, location, mapContainer, chartCanvas, chart, mapView,
                   pollutionLayer, storage, now, geolocation, ticks, mapReqs, shown, pcall,
                   searchVars, prefersDark, chartDark>>

\* lines 131-163: a getCurrentPosition request (high or low accuracy) succeeds
GetPositionSuccess(fix) ==
    /\ attempt \in {"high", "low"}
    /\ attempt' = "done"
    /\ timers' = {t \in timers : t.kind # "geolocation"}
    /\ latitude' = fix.latitude
    /\ longitude' = fix.longitude
    /\ storage' = cachePosition(fix.latitude, fix.longitude, now)
    /\ ResolveLocation(fix.latitude, fix.longitude)
    /\ MoveMap(fix.latitude, fix.longitude, FALSE)
    /\ UNCHANGED <<dataVars, loading, error, location, mapContainer, chartCanvas, chart,
                   pollutionLayer, now, geolocation, ticks, watches, shown, pcall,
                   searchVars, themeVars>>

\* lines 141-155: the high-accuracy request fails, the low-accuracy one starts
HighAccuracyError ==
    /\ attempt = "high"
    /\ attempt' = "low"
    /\ UNCHANGED <<viewVars, envVars, pc, resolved, ticks, reqVars, shown, pcall,
                   searchVars, themeVars>>

\* a plausible slip: a position that cannot be had is reported in the banner
LowAccuracyError_Banner ==
    /\ attempt = "low"
    /\ attempt' = "done"
    /\ LET fallbackPosition == getCachedPosition(storage, now)
           lat == IF fallbackPosition # None THEN fallbackPosition[1].latitude ELSE latitude
           lon == IF fallbackPosition # None THEN fallbackPosition[1].longitude ELSE longitude
       IN  /\ latitude' = lat
           /\ longitude' = lon
           /\ ResolveLocation(lat, lon)
           /\ MoveMap(lat, lon, FALSE)
           /\ error' = IF fallbackPosition # None THEN error
                       ELSE "Unable to determine your location."
    /\ UNCHANGED <<dataVars, loading, location, mapContainer, chartCanvas, chart,
                   pollutionLayer, envVars, ticks, watches, shown, pcall,
                   searchVars, themeVars>>

\* lines 164-175: the low-accuracy request fails too
LowAccuracyError ==
    /\ attempt = "low"
    /\ attempt' = "done"
    /\ LET fallbackPosition == getCachedPosition(storage, now)
           lat == IF fallbackPosition # None THEN fallbackPosition[1].latitude ELSE latitude
           lon == IF fallbackPosition # None THEN fallbackPosition[1].longitude ELSE longitude
       IN  /\ latitude' = lat
           /\ longitude' = lon
           /\ ResolveLocation(lat, lon)
           /\ MoveMap(lat, lon, FALSE)
    /\ UNCHANGED <<dataVars, loading, error, location, mapContainer, chartCanvas, chart,
                   pollutionLayer, envVars, ticks, watches, shown, pcall,
                   searchVars, themeVars>>

\* a plausible slip: the timer only logs, it does not resolve
GeolocationTimeout_LogOnly ==
    \E t \in timers :
        /\ Due(t)
        /\ t.kind = "geolocation"
        /\ timers' = timers \ {t}
        /\ now' = Later(t)
        /\ UNCHANGED <<viewVars, storage, geolocation, ctlVars, reqVars, shown, pcall,
                   searchVars, themeVars>>

\* lines 124-127: the 8 s timer fires
GeolocationTimeout ==
    \E t \in timers :
        /\ Due(t)
        /\ t.kind = "geolocation"
        /\ timers' = timers \ {t}
        /\ now' = Later(t)
        /\ ResolveLocation(latitude, longitude)
        /\ UNCHANGED <<viewVars, storage, geolocation, attempt, ticks, mapReqs,
                       watches, shown, pcall,
                   searchVars, themeVars>>

-----------------------------------------------------------------------------
(* updatePositionInBackground and the refresh interval *)

\* lines 185-188, 207-223: the watch delivers a position
WatchFix(w, fix) ==
    /\ w \in watches
    /\ watches' = watches \ {w}
    /\ LET newLat == fix.latitude
           newLon == fix.longitude
           distance == calculateDistance(latitude, longitude, newLat, newLon)
       IN  IF distance > SIGNIFICANT_DISTANCE_CM
           THEN /\ nextId <= MaxFetches
                /\ latitude' = newLat
                /\ longitude' = newLon
                /\ storage' = cachePosition(newLat, newLon, now)
                /\ nameReqs' = nameReqs \cup {NameReq(nextId, newLat, newLon, "bg")}
                /\ aqReqs' = aqReqs \cup {AqReq(nextId, newLat, newLon, "bg", w.cycle)}
                /\ nextId' = nextId + 1
                /\ MoveMap(newLat, newLon, TRUE)
           ELSE UNCHANGED <<latitude, longitude, storage, nameReqs, aqReqs, nextId,
                            mapView, mapReqs>>
    /\ UNCHANGED <<dataVars, loading, error, location, mapContainer, chartCanvas, chart,
                   pollutionLayer, now, geolocation, timers, ctlVars, shown, pcall,
                   searchVars, themeVars>>

\* lines 189-192, 224-230: the watch reports an error
WatchError(w) ==
    /\ w \in watches
    /\ watches' = watches \ {w}
    /\ UNCHANGED <<viewVars, envVars, ctlVars, aqReqs, nameReqs, mapReqs, nextId,
                   shown, pcall,
                   searchVars, themeVars>>

\* a plausible slip: the timer rejects the promise and leaves the watch
WatchTimeout_RejectOnly ==
    \E t \in timers :
        /\ Due(t)
        /\ t.kind = "watch"
        /\ timers' = timers \ {t}
        /\ now' = Later(t)
        /\ watches' = watches
        /\ UNCHANGED <<viewVars, storage, geolocation, ctlVars, aqReqs, nameReqs,
                       mapReqs, nextId, shown, pcall,
                   searchVars, themeVars>>

\* lines 200-204: 12 s after the watch was registered
WatchTimeout ==
    \E t \in timers :
        /\ Due(t)
        /\ t.kind = "watch"
        /\ timers' = timers \ {t}
        /\ now' = Later(t)
        /\ watches' = {w \in watches : w.cycle # t.id}
        /\ UNCHANGED <<viewVars, storage, geolocation, ctlVars, aqReqs, nameReqs,
                       mapReqs, nextId, shown, pcall,
                   searchVars, themeVars>>

\* lines 964-969: the interval fires; updatePositionInBackground() and
\* fetchAirQuality() are both called before either is waited for
RefreshTick ==
    \E t \in timers :
        /\ Due(t)
        /\ t.kind = "refresh"
        /\ nextId <= MaxFetches
        /\ ticks' = ticks + 1
        /\ now' = Later(t)
        /\ timers' = (timers \ {t})
                     \cup {Timer("refresh", 0, t.deadline + REFRESH_INTERVAL)}
                     \cup (IF geolocation
                           THEN {Timer("watch", ticks + 1, Later(t) + WATCH_TIMEOUT)}
                           ELSE {})
        /\ watches' = IF geolocation THEN watches \cup {[cycle |-> ticks + 1]} ELSE watches
        /\ aqReqs' = aqReqs \cup {AqReq(nextId, latitude, longitude, "tick", ticks + 1)}
        /\ nextId' = nextId + 1
        /\ UNCHANGED <<viewVars, storage, geolocation, pc, attempt, resolved,
                       nameReqs, mapReqs, shown, pcall,
                   searchVars, themeVars>>

-----------------------------------------------------------------------------
(* fetchAirQuality after its requests were sent *)

\* a plausible slip: the catch block blanks the reading
AqFail_Blank(r) ==
    /\ error' = AQ_ERROR
    /\ aqReqs' = aqReqs \ {r}
    /\ currentAQI' = 0
    /\ UNCHANGED <<pollutants, forecastData, lastUpdateTime>>
    /\ Settle(r.src, aqReqs \ {r}, nameReqs, forecastData, shown, FALSE)
    /\ UNCHANGED <<location, latitude, longitude, pollutionLayer, storage, now,
                   geolocation, attempt, resolved, ticks, nameReqs, watches, nextId, pcall,
                   searchVars, darkMode, prefersDark>>

\* a plausible slip: the catch block asks again at once
AqFail_Retry(r) ==
    /\ error' = AQ_ERROR
    /\ aqReqs' = (aqReqs \ {r}) \cup {AqReq(nextId, r.lat, r.lon, r.src, r.cycle)}
    /\ nextId' = nextId + 1
    /\ UNCHANGED dataVars
    /\ Settle(r.src, aqReqs', nameReqs, forecastData, shown, FALSE)
    /\ UNCHANGED <<location, latitude, longitude, pollutionLayer, storage, now,
                   geolocation, attempt, resolved, ticks, nameReqs, watches, pcall,
                   searchVars, darkMode, prefersDark>>

\* lines 482-485: the catch block
AqFail(r) ==
    /\ error' = AQ_ERROR
    /\ aqReqs' = aqReqs \ {r}
    /\ UNCHANGED dataVars
    /\ Settle(r.src, aqReqs \ {r}, nameReqs, forecastData, shown, FALSE)
    /\ UNCHANGED <<location, latitude, longitude, pollutionLayer, storage, now,
                   geolocation, attempt, resolved, ticks, nameReqs, watches, nextId, pcall,
                   searchVars, darkMode, prefersDark>>

\* a plausible slip of a fix: a result is applied only when no later call
\* has been applied
AqApply_LatestOnly(r, current, forecast) ==
    LET replace == forecast.list # None /\ Len(forecast.list[1]) > 0
        fd == IF replace THEN Slice(forecast.list[1]) ELSE forecastData
        sh == [shown EXCEPT !.aqi = r.id, !.pollutants = r.id,
                            !.forecast = IF replace THEN r.id ELSE @,
                            !.at = Coord(r.lat, r.lon),
                            !.forecastAt = IF replace THEN Coord(r.lat, r.lon) ELSE @]
    IN  /\ aqReqs' = aqReqs \ {r}
        /\ IF r.id > shown.aqi
           THEN /\ currentAQI' = convertOpenWeatherMapAQI(current.aqi)
                /\ pollutants' = [PM2_5 |-> current.components.pm2_5,
                                  PM10  |-> current.components.pm10,
                                  NO2   |-> current.components.no2,
                                  SO2   |-> current.components.so2,
                                  O3    |-> current.components.o3,
                                  CO    |-> current.components.co]
                /\ forecastData' = fd
                /\ lastUpdateTime' = Some(current.dt * 1000)
                /\ Settle(r.src, aqReqs \ {r}, nameReqs, fd, sh, replace)
           ELSE /\ UNCHANGED dataVars
                /\ Settle(r.src, aqReqs \ {r}, nameReqs, forecastData, shown, FALSE)
        /\ UNCHANGED <<error, location, latitude, longitude, pollutionLayer, storage, now,
                       geolocation, attempt, resolved, ticks, nameReqs, watches, nextId,
                       pcall,
                   searchVars, darkMode, prefersDark>>

\* lines 459-480: the result is processed
AqApply(r, current, forecast) ==
    LET replace == forecast.list # None /\ Len(forecast.list[1]) > 0
        fd == IF replace THEN Slice(forecast.list[1]) ELSE forecastData
        sh == [shown EXCEPT !.aqi = r.id, !.pollutants = r.id,
                            !.forecast = IF replace THEN r.id ELSE @,
                            !.at = Coord(r.lat, r.lon),
                            !.forecastAt = IF replace THEN Coord(r.lat, r.lon) ELSE @]
    IN  /\ aqReqs' = aqReqs \ {r}
        /\ currentAQI' = convertOpenWeatherMapAQI(current.aqi)
        /\ pollutants' = [PM2_5 |-> current.components.pm2_5,
                          PM10  |-> current.components.pm10,
                          NO2   |-> current.components.no2,
                          SO2   |-> current.components.so2,
                          O3    |-> current.components.o3,
                          CO    |-> current.components.co]
        /\ forecastData' = fd
        /\ lastUpdateTime' = Some(current.dt * 1000)
        /\ Settle(r.src, aqReqs \ {r}, nameReqs, fd, sh, replace)
        /\ UNCHANGED <<error, location, latitude, longitude, pollutionLayer, storage, now,
                       geolocation, attempt, resolved, ticks, nameReqs, watches, nextId,
                       pcall,
                   searchVars, darkMode, prefersDark>>

\* lines 433-440: one of the two fetch() promises rejects
AqNetworkError(r) ==
    /\ r \in aqReqs
    /\ r.stage = "sent"
    /\ AqFail(r)

\* lines 442-453: both responses arrived
AqResponse(r, currentOk, forecastOk) ==
    /\ r \in aqReqs
    /\ r.stage = "sent"
    /\ IF currentOk /\ forecastOk
       THEN /\ aqReqs' = (aqReqs \ {r}) \cup {[r EXCEPT !.stage = "parsing"]}
            /\ UNCHANGED <<viewVars, envVars, ctlVars, nameReqs, mapReqs, watches,
                           nextId, shown, pcall,
                   searchVars, themeVars>>
       ELSE AqFail(r)

\* lines 450-453: a body is not JSON
AqBodyInvalid(r) ==
    /\ r \in aqReqs
    /\ r.stage = "parsing"
    /\ AqFail(r)

\* lines 455-480: both bodies were parsed
AqBody(r, currentData, forecastDataResponse) ==
    /\ r \in aqReqs
    /\ r.stage = "parsing"
    /\ IF currentData.list = None \/ currentData.list[1] = << >>
       THEN AqFail(r)
       ELSE AqApply(r, currentData.list[1][1], forecastDataResponse)

-----------------------------------------------------------------------------
(* fetchLocationName after its first request was sent *)

NameDone(q, name) ==
    /\ location' = name
    /\ nameReqs' = nameReqs \ {q}
    /\ Settle(q.src, aqReqs, nameReqs \ {q}, forecastData, shown, FALSE)
    /\ UNCHANGED <<dataVars, error, latitude, longitude, pollutionLayer, storage, now,
                   geolocation, attempt, resolved, ticks, aqReqs, watches, nextId, pcall,
                   searchVars, darkMode, prefersDark>>

\* lines 249-260: the weather response
NameWeather(q, ok) ==
    /\ q \in nameReqs
    /\ q.stage = "weather"
    /\ IF ok
       THEN /\ nameReqs' = (nameReqs \ {q}) \cup {[q EXCEPT !.stage = "reverse"]}
            /\ UNCHANGED <<viewVars, envVars, ctlVars, aqReqs, mapReqs, watches,
                           nextId, shown, pcall,
                   searchVars, themeVars>>
       ELSE NameDone(q, LOCATION_UNAVAILABLE)

\* lines 261-278: the reverse-geocoding response
NameReverse(q, ok) ==
    /\ q \in nameReqs
    /\ q.stage = "reverse"
    /\ NameDone(q, IF ok THEN PlaceName(q.lat, q.lon) ELSE LOCATION_UNAVAILABLE)

-----------------------------------------------------------------------------
Next ==
    \/ Mount
    \/ \E fix \in DeviceFixes : GetPositionSuccess(fix)
    \/ HighAccuracyError
    \/ LowAccuracyError
    \/ GeolocationTimeout
    \/ \E w \in watches, fix \in DeviceFixes : WatchFix(w, fix)
    \/ \E w \in watches : WatchError(w)
    \/ WatchTimeout
    \/ RefreshTick
    \/ \E r \in aqReqs : AqNetworkError(r)
    \/ \E r \in aqReqs, currentOk \in BOOLEAN, forecastOk \in BOOLEAN :
           AqResponse(r, currentOk, forecastOk)
    \/ \E r \in aqReqs : AqBodyInvalid(r)
    \/ \E r \in aqReqs, b \in ProviderBodies : AqBody(r, b.current, b.forecast)
    \/ \E q \in nameReqs, ok \in BOOLEAN : NameWeather(q, ok)
    \/ \E q \in nameReqs, ok \in BOOLEAN : NameReverse(q, ok)

Spec == Init /\ [][Next]_vars

\* the event loop runs the timers and onMount; the provider answers every
\* request; the device need not ever answer a geolocation request
AqStep ==
    \E r \in aqReqs :
        \/ AqNetworkError(r)
        \/ \E currentOk \in BOOLEAN, forecastOk \in BOOLEAN :
               AqResponse(r, currentOk, forecastOk)
        \/ AqBodyInvalid(r)
        \/ \E b \in ProviderBodies : AqBody(r, b.current, b.forecast)

NameStep ==
    \E q \in nameReqs, ok \in BOOLEAN : NameWeather(q, ok) \/ NameReverse(q, ok)

LiveSpec ==
    /\ Init
    /\ [][Next]_vars
    /\ WF_vars(Mount)
    /\ WF_vars(GeolocationTimeout)
    /\ WF_vars(AqStep)
    /\ WF_vars(NameStep)

-----------------------------------------------------------------------------
(* The pure functions, called on inputs of every kind *)

mainVars == <<viewVars, geolocation, timers, ctlVars, reqVars, shown, themeVars, searchVars>>

\* the storage entries getCachedPosition can meet
PureItems ==
    {NoItem, BadItem}
    \cup {Item(CACHED_FIX.latitude, CACHED_FIX.longitude, StartTime - d) :
            d \in {0, CACHE_EXPIRY_TIME - 1, CACHE_EXPIRY_TIME, CACHE_EXPIRY_TIME + 1}}

CacheInit ==
    /\ Constructed
    /\ storage \in PureItems
    /\ geolocation = FALSE
    /\ prefersDark = FALSE

IndexInit ==
    /\ Constructed
    /\ storage = NoItem
    /\ geolocation = FALSE
    /\ prefersDark = FALSE

\* line 54
CallConvert(owmAQI) ==
    /\ pcall' = [fn |-> "convertOpenWeatherMapAQI", arg |-> owmAQI,
                 ret |-> convertOpenWeatherMapAQI(owmAQI)]
    /\ UNCHANGED <<mainVars, storage, now>>

\* lines 1051-1059: the colour and the status shown for one index value
CallBand(aqi) ==
    /\ pcall' = [fn |-> "getAQI", arg |-> aqi,
                 ret |-> [color |-> getAQIColor(aqi), description |-> getAQIStatus(aqi)]]
    /\ UNCHANGED <<mainVars, storage, now>>

\* lines 77-90
CallGetCachedPosition ==
    /\ pcall' = [fn |-> "getCachedPosition", arg |-> [item |-> storage, clock |-> now],
                 ret |-> getCachedPosition(storage, now)]
    /\ UNCHANGED <<mainVars, storage, now>>

\* lines 92-105
CallCachePosition(fix) ==
    /\ storage' = cachePosition(fix.latitude, fix.longitude, now)
    /\ pcall' = [fn |-> "cachePosition", arg |-> fix, ret |-> 0]
    /\ UNCHANGED <<mainVars, now>>

\* the instants at which the cache is looked at: the first milliseconds
\* after construction, and those around one expiry time later
PureInstants ==
    {StartTime + k : k \in 0..MaxPureClock}
    \cup {StartTime + CACHE_EXPIRY_TIME - 1 + k : k \in 0..MaxPureClock}

\* Date.now() moves on
ClockAdvance(t) ==
    /\ t > now
    /\ now' = t
    /\ UNCHANGED <<mainVars, storage, pcall>>

IndexNext ==
    \/ \E owmAQI \in (0 - 1)..MaxCategory : CallConvert(owmAQI)
    \/ \E aqi \in (0 - 1)..MaxIndex : CallBand(aqi)

\* convertOpenWeatherMapAQI, getAQIColor and getAQIDescription on numbers
IndexSpec == IndexInit /\ [][IndexNext]_vars

CacheNext ==
    \/ CallGetCachedPosition
    \/ \E fix \in DeviceFixes : CallCachePosition(fix)
    \/ \E t \in PureInstants : ClockAdvance(t)

\* getCachedPosition and cachePosition as the clock moves on
CacheSpec == CacheInit /\ [][CacheNext]_vars

-----------------------------------------------------------------------------
(* Text: a string is the sequence of its characters *)

DIGITS == {"0", "1", "2", "3", "4", "5", "6", "7", "8", "9"}

\* /^\d+$/.test(query)
AllDigits(query) == Len(query) > 0 /\ \A i \in 1..Len(query) : query[i] \in DIGITS

\* /^\d{5}$/.test(query)
IsZip(query) == Len(query) = 5 /\ AllDigits(query)

\* !query.trim(): nothing but white space
Blank(query) == \A i \in 1..Len(query) : query[i] = " "

\* query.slice(0, -1)
DropLast(query) == SubSeq(query, 1, Len(query) - 1)

LOWER_CASE == ("P" :> "p") @@ ("A" :> "a") @@ ("R" :> "r") @@ ("U" :> "u")

toLowerCase(text) ==
    [i \in 1..Len(text) |->
        IF text[i] \in DOMAIN LOWER_CASE THEN LOWER_CASE[text[i]] ELSE text[i]]

\* text.includes(part)
includes(text, part) ==
    \E i \in 0..Len(text) : i + Len(part) <= Len(text) /\ SubSeq(text, i + 1, i + Len(part)) = part

\* what the user can have in the search field
Queries ==
    {<< >>,
     <<"P", "a">>,
     <<"p", "a", "r">>,
     <<"1", "2">>,
     <<"1", "0", "0", "0", "1">>}

-----------------------------------------------------------------------------
(* The geocoding provider *)

\* an item of a /geo/1.0/direct answer
PARIS == [name |-> <<"P", "a", "r", "i", "s">>, state |-> <<"I", "D", "F">>,
          country |-> <<"F", "R">>, lat |-> 488566, lon |-> 23522, local_names |-> TRUE]
PAU   == [name |-> <<"P", "a", "u">>, state |-> <<"N", "A", "Q">>,
          country |-> <<"F", "R">>, lat |-> 432951, lon |-> 0 - 3708, local_names |-> TRUE]

\* the object of a /geo/1.0/zip answer
NEW_YORK == [zip |-> "10001", name |-> <<"N", "e", "w", " ", "Y", "o", "r", "k">>,
             country |-> <<"U", "S">>, lat |-> 407484, lon |-> 0 - 739967]

\* the object of an error answer: {cod, message}
MESSAGE == [cod |-> "error", message |-> "error"]

\* obj.field where the object has no such field: undefined, as a text and
\* as a number
NO_TEXT == << >>
NO_NUMBER == 0 - 999999999

Text(obj, field) == IF field \in DOMAIN obj THEN obj[field] ELSE NO_TEXT
Number(obj, field) == IF field \in DOMAIN obj THEN obj[field] ELSE NO_NUMBER

ArrayBody(items) == [array |-> TRUE, items |-> items]
ObjectBody(obj) == [array |-> FALSE, object |-> obj]

\* what the provider answers a lookup with: a status and a JSON body
SearchAnswers ==
    {[status |-> 200, data |-> ArrayBody(<<PARIS, PAU>>)],
     [status |-> 200, data |-> ArrayBody(<<PAU>>)],
     [status |-> 200, data |-> ArrayBody(<< >>)],
     [status |-> 200, data |-> ObjectBody(NEW_YORK)],
     [status |-> 404, data |-> ObjectBody(MESSAGE)],
     [status |-> 401, data |-> ObjectBody(MESSAGE)]}

\* one lookup in flight: call is the searchLocation call it belongs to,
\* query that call's argument, endpoint and q what was asked of the provider
SearchReq(call, query, endpoint, q, stage) ==
    [call |-> call, query |-> query, endpoint |-> endpoint, q |-> q,
     limit |-> IF endpoint = "direct" THEN 10 ELSE 0, stage |-> stage]

NO_LOCATIONS == "No locations found. Try a different search term."
SEARCH_FAILED == "Error searching for location. Please try again."

\* lines 829-835, 853-859: an item of an array answer as a result
ItemResult(item) ==
    [name |-> item.name, state |-> item.state, country |-> item.country,
     lat |-> item.lat, lon |-> item.lon]

\* lines 845-851: the object of a non-array answer as the single result
ObjectResult(obj) ==
    [name |-> Text(obj, "name"), state |-> << >>, country |-> Text(obj, "country"),
     lat |-> Number(obj, "lat"), lon |-> Number(obj, "lon")]

\* items.map(item => ({name, state, country, lat, lon}))
ItemResults(items) == [i \in 1..Len(items) |-> ItemResult(items[i])]

\* lenientData.filter(item => item.name.toLowerCase().includes(query.toLowerCase()))
RelevantMatches(items, query) ==
    SelectSeq(items, LAMBDA item : includes(toLowerCase(item.name), toLowerCase(query)))

-----------------------------------------------------------------------------
(* The search field: handleSearchInput, searchLocation, selectLocation.     *)
(* The field and the list of results are rendered once loading is false.    *)

\* the provider answers /geo/1.0/direct with an array, /geo/1.0/zip with one
\* object, and either with a message object when it refuses
Plausible(endpoint, answer) ==
    \/ answer.data.array /\ endpoint = "direct"
    \/ ~answer.data.array /\ answer.data.object = NEW_YORK /\ endpoint = "zip"
    \/ ~answer.data.array /\ answer.data.object = MESSAGE

\* a plausible slip: the pending timer is not cleared
handleSearchInput_Stacked(at) ==
    timers' = timers \cup {Timer("search", typed.keys + 1, at + SEARCH_DELAY)}

\* lines 871-877: clearTimeout(searchTimeout), then setTimeout(..., 300)
handleSearchInput(at) ==
    timers' = {t \in timers : t.kind # "search"}
              \cup {Timer("search", typed.keys + 1, at + SEARCH_DELAY)}

\* the user changes the text of the field to v, gap milliseconds after the
\* last event: bind:value assigns locationInput, on:input runs the handler
\* (a keystroke less than the debounce delay after the last one continues
\* its burst)
KeyStroke(v, gap) ==
    /\ loading = FALSE
    /\ typed.keys < MaxKeys
    /\ v # locationInput
    /\ \A t \in timers : t.deadline >= now + gap
    /\ now' = now + gap
    /\ locationInput' = v
    /\ handleSearchInput(now + gap)
    /\ typed' = [typed EXCEPT !.keys = @ + 1,
                              !.last = now + gap,
                              !.bursts = IF typed.keys > 0 /\ now + gap < typed.last + SEARCH_DELAY
                                         THEN @ ELSE @ + 1]
    /\ UNCHANGED <<viewVars, storage, geolocation, ctlVars, reqVars, shown, pcall,
                   themeVars, searchResults, isSearching, searchError, searchReqs>>

\* searchLocation(query) up to its first await (lines 791-817)
searchLocation(query, call) ==
    IF Blank(query)
    THEN UNCHANGED <<searchResults, isSearching, searchError, searchReqs>>
    ELSE IF Len(query) < 3 /\ ~AllDigits(query)
    THEN /\ searchResults' = << >>
         /\ UNCHANGED <<isSearching, searchError, searchReqs>>
    ELSE /\ isSearching' = TRUE
         /\ searchError' = ""
         /\ searchReqs' = searchReqs \cup
                {SearchReq(call, query, IF IsZip(query) THEN "zip" ELSE "direct",
                           query, "first")}
         /\ UNCHANGED searchResults

\* lines 874-876: the debounce timer fires
SearchTimeout ==
    \E t \in timers :
        /\ Due(t)
        /\ t.kind = "search"
        /\ now' = Later(t)
        /\ timers' = timers \ {t}
        /\ searchLocation(locationInput, typed.calls + 1)
        /\ typed' = [typed EXCEPT !.calls = @ + 1,
                                  !.sent = IF searchReqs' # searchReqs
                                           THEN typed.calls + 1 ELSE @]
        /\ UNCHANGED <<viewVars, storage, geolocation, ctlVars, reqVars, shown, pcall,
                       themeVars, locationInput>>

\* lines 861-867: fetch rejects or the body is not JSON, at either request
SearchFailure(s) ==
    /\ s \in searchReqs
    /\ searchReqs' = searchReqs \ {s}
    /\ searchError' = SEARCH_FAILED
    /\ searchResults' = << >>
    /\ isSearching' = FALSE
    /\ UNCHANGED <<viewVars, envVars, ctlVars, reqVars, shown, pcall, themeVars,
                   locationInput, typed>>

\* lines 817-860, 865-867: the answer to the first request
SearchResponse(s, answer) ==
    LET data == answer.data
        none == answer.status = 404 \/ (data.array /\ Len(data.items) = 0)
    IN  /\ s \in searchReqs
        /\ s.stage = "first"
        /\ Plausible(s.endpoint, answer)
        /\ IF none /\ ~IsZip(s.query) /\ Len(s.query) >= 3
           THEN /\ searchReqs' = (searchReqs \ {s}) \cup
                       {SearchReq(s.call, s.query, "direct", DropLast(s.query), "lenient")}
                /\ UNCHANGED <<searchResults, searchError, isSearching>>
           ELSE /\ searchReqs' = searchReqs \ {s}
                /\ isSearching' = FALSE
                /\ IF none
                   THEN /\ searchError' = NO_LOCATIONS
                        /\ searchResults' = << >>
                   ELSE /\ searchResults' = IF data.array
                                            THEN ItemResults(data.items)
                                            ELSE <<ObjectResult(data.object)>>
                        /\ UNCHANGED searchError
        /\ UNCHANGED <<viewVars, envVars, ctlVars, reqVars, shown, pcall, themeVars,
                       locationInput, typed>>

\* a plausible slip: every relaxed result is accepted
LenientResponse_Unfiltered(s, answer) ==
    LET data == answer.data
        filteredResults == IF data.array THEN data.items ELSE << >>
    IN  /\ s \in searchReqs
        /\ s.stage = "lenient"
        /\ Plausible(s.endpoint, answer)
        /\ searchReqs' = searchReqs \ {s}
        /\ isSearching' = FALSE
        /\ IF Len(filteredResults) > 0
           THEN /\ searchResults' = ItemResults(filteredResults)
                /\ UNCHANGED searchError
           ELSE /\ searchError' = NO_LOCATIONS
                /\ searchResults' = << >>
        /\ UNCHANGED <<viewVars, envVars, ctlVars, reqVars, shown, pcall, themeVars,
                       locationInput, typed>>

\* lines 824-843, 865-867: the answer to the relaxed request; the length of
\* a message object is undefined, which is not > 0
LenientResponse(s, answer) ==
    LET data == answer.data
        filteredResults == IF data.array THEN RelevantMatches(data.items, s.query)
                           ELSE << >>
    IN  /\ s \in searchReqs
        /\ s.stage = "lenient"
        /\ Plausible(s.endpoint, answer)
        /\ searchReqs' = searchReqs \ {s}
        /\ isSearching' = FALSE
        /\ IF Len(filteredResults) > 0
           THEN /\ searchResults' = ItemResults(filteredResults)
                /\ UNCHANGED searchError
           ELSE /\ searchError' = NO_LOCATIONS
                /\ searchResults' = << >>
        /\ UNCHANGED <<viewVars, envVars, ctlVars, reqVars, shown, pcall, themeVars,
                       locationInput, typed>>

\* lines 879-898: the user clicks a listed result.  updateMap is called
\* explicitly; with undefined coordinates Leaflet throws inside its try
\* block (lines 491-641) before anything is changed or requested.
selectLocation(result) ==
    /\ loading = FALSE
    /\ \E i \in 1..Len(searchResults) : searchResults[i] = result
    /\ nextId <= MaxFetches
    /\ typed.picks < MaxPicks
    /\ typed' = [typed EXCEPT !.picks = @ + 1]
    /\ location' = IF result.state # << >>
                   THEN <<result.name, result.state, result.country>>
                   ELSE <<result.name, result.country>>
    /\ latitude' = result.lat
    /\ longitude' = result.lon
    /\ locationInput' = << >>
    /\ searchResults' = << >>
    /\ nameReqs' = nameReqs \cup {NameReq(nextId, result.lat, result.lon, "select")}
    /\ aqReqs' = aqReqs \cup {AqReq(nextId, result.lat, result.lon, "select", ticks)}
    /\ nextId' = nextId + 1
    /\ IF result.lat # NO_NUMBER /\ result.lon # NO_NUMBER
       THEN MoveMap(result.lat, result.lon, TRUE)
       ELSE UNCHANGED <<mapView, mapReqs>>
    /\ UNCHANGED <<loading, error, dataVars, mapContainer, chartCanvas, chart,
                   pollutionLayer, envVars, ctlVars, watches, shown, pcall, themeVars,
                   isSearching, searchError, searchReqs>>

\* every result a lookup can list
Results ==
    UNION {{ItemResult(a.data.items[i]) : i \in 1..Len(a.data.items)} :
              a \in {b \in SearchAnswers : b.data.array}}
    \cup {ObjectResult(a.data.object) : a \in {b \in SearchAnswers : ~b.data.array}}

USUAL_BODIES == Bodies(Some(<<GOOD_ENTRY>>), Some(LONG_FORECAST))

\* a device without the geolocation API and with an empty cache
SearchInit ==
    /\ Constructed
    /\ storage = NoItem
    /\ geolocation = FALSE
    /\ prefersDark = FALSE

\* the provider refuses a request for an undefined coordinate
SearchNext ==
    \/ Mount
    \/ \E r \in aqReqs : AqResponse(r, r.lat # NO_NUMBER, r.lat # NO_NUMBER)
    \/ \E r \in aqReqs : AqBody(r, USUAL_BODIES.current, USUAL_BODIES.forecast)
    \/ \E q \in nameReqs : NameWeather(q, q.lat # NO_NUMBER)
    \/ \E q \in nameReqs : NameReverse(q, TRUE)
    \/ \E v \in Queries : KeyStroke(v, KeyGap)
    \/ SearchTimeout
    \/ \E s \in searchReqs : SearchFailure(s)
    \/ \E s \in searchReqs, answer \in SearchAnswers : SearchResponse(s, answer)
    \/ \E s \in searchReqs, answer \in SearchAnswers : LenientResponse(s, answer)
    \/ \E result \in Results : selectLocation(result)

SearchSpec == SearchInit /\ [][SearchNext]_vars

\* a device with the geolocation API whose cached position is fresh
PickInit ==
    /\ Constructed
    /\ storage = Item(CACHED_FIX.latitude, CACHED_FIX.longitude,
                      StartTime - CACHE_EXPIRY_TIME + 1)
    /\ geolocation = TRUE
    /\ prefersDark = FALSE

PARIS_AND_PAU == [status |-> 200, data |-> ArrayBody(<<PARIS, PAU>>)]

\* the user looks for "par" and picks a result while the refresh cycles and
\* their background watches go on; the providers answer every request
PickNext ==
    \/ Mount
    \/ RefreshTick
    \/ \E w \in watches, fix \in DeviceFixes : WatchFix(w, fix)
    \/ WatchTimeout
    \/ \E r \in aqReqs : AqResponse(r, TRUE, TRUE)
    \/ \E r \in aqReqs : AqBody(r, USUAL_BODIES.current, USUAL_BODIES.forecast)
    \/ \E q \in nameReqs : NameWeather(q, TRUE)
    \/ \E q \in nameReqs : NameReverse(q, TRUE)
    \/ KeyStroke(<<"p", "a", "r">>, KeyGap)
    \/ SearchTimeout
    \/ \E s \in searchReqs : SearchResponse(s, PARIS_AND_PAU)
    \/ \E result \in Results : selectLocation(result)

PickSpec == PickInit /\ [][PickNext]_vars

-----------------------------------------------------------------------------
(* updateMap after its pollution request was sent (lines 548-641).  The    *)
(* marker is moved together with the view before the request (lines        *)
(* 532-545); pollutionLayer is the circle displayed on the map.            *)

\* the bodies the provider answers the map's request with: a reading, or a
\* message object without a list
MapBodies == {[list |-> Some(<<GOOD_ENTRY>>)], [list |-> Some(<<POOR_ENTRY>>)],
              [list |-> None]}

\* lines 553, 639-641: fetch rejects or the body is not JSON; the catch
\* block logs
MapNetworkError(m) ==
    /\ m \in mapReqs
    /\ mapReqs' = mapReqs \ {m}
    /\ UNCHANGED <<viewVars, envVars, ctlVars, aqReqs, nameReqs, watches, nextId,
                   shown, pcall, themeVars, searchVars>>

\* lines 556-575: the circle on the map is removed, then data.list[0] is
\* read (which throws when the list is missing) and a circle is drawn at the
\* coordinate this call was made with
MapBody(m, data) ==
    /\ m \in mapReqs
    /\ mapReqs' = mapReqs \ {m}
    /\ pollutionLayer' =
           IF data.list = None
           THEN None
           ELSE LET convertedAQI == convertOpenWeatherMapAQI(data.list[1][1].aqi)
                IN  Some([center |-> m, aqi |-> convertedAQI,
                          color |-> getAQIColor(convertedAQI)])
    /\ UNCHANGED <<loading, error, dataVars, location, latitude, longitude, mapContainer,
                   chartCanvas, chart, mapView, envVars, ctlVars, aqReqs, nameReqs,
                   watches, nextId, shown, pcall, themeVars, searchVars>>

\* the refresh cycles of a device whose cached position is fresh, with the
\* map's requests answered in any order
MapNext ==
    \/ Mount
    \/ RefreshTick
    \/ \E w \in watches, fix \in DeviceFixes : WatchFix(w, fix)
    \/ WatchTimeout
    \/ \E r \in aqReqs : AqResponse(r, TRUE, TRUE)
    \/ \E r \in aqReqs : AqBody(r, USUAL_BODIES.current, USUAL_BODIES.forecast)
    \/ \E q \in nameReqs : NameWeather(q, TRUE)
    \/ \E q \in nameReqs : NameReverse(q, TRUE)
    \/ \E m \in mapReqs : MapNetworkError(m)
    \/ \E m \in mapReqs, data \in MapBodies : MapBody(m, data)

MapSpec == PickInit /\ [][MapNext]_vars

-----------------------------------------------------------------------------
(* The theme: watchSystemTheme's listener and toggleDarkMode *)

\* lines 917-919, 932-934: if (chart) updateChart(forecastData), which
\* draws with the colours of the new theme
RedrawChart ==
    IF chart # None /\ chartCanvas
    THEN /\ chart' = Some(Series(forecastData))
         /\ chartDark' = darkMode'
         /\ shown' = [shown EXCEPT !.chart = shown.forecast]
    ELSE UNCHANGED <<chart, chartDark, shown>>

\* lines 910-920: the system colour scheme changes while the listener is
\* registered
SystemThemeChange(matches) ==
    /\ pc # "unmounted"
    /\ matches # prefersDark
    /\ prefersDark' = matches
    /\ darkMode' = matches
    /\ RedrawChart
    /\ UNCHANGED <<dataVars, loading, error, location, latitude, longitude, mapContainer,
                   chartCanvas, mapView, pollutionLayer, envVars, ctlVars, reqVars, pcall,
                   searchVars>>

\* a plausible slip: the chart is left as it was drawn
toggleDarkMode_Stale ==
    /\ pc # "unmounted"
    /\ darkMode' = ~darkMode
    /\ UNCHANGED <<dataVars, loading, error, location, latitude, longitude, mapContainer,
                   chartCanvas, mapView, pollutionLayer, envVars, ctlVars, reqVars, pcall,
                   searchVars, prefersDark, chart, chartDark, shown>>

\* lines 924-935: the user clicks the theme button
toggleDarkMode ==
    /\ pc # "unmounted"
    /\ darkMode' = ~darkMode
    /\ RedrawChart
    /\ UNCHANGED <<dataVars, loading, error, location, latitude, longitude, mapContainer,
                   chartCanvas, mapView, pollutionLayer, envVars, ctlVars, reqVars, pcall,
                   searchVars, prefersDark>>

\* a device without the geolocation API and with an empty cache, in either
\* colour scheme
ThemeInit ==
    /\ Constructed
    /\ storage = NoItem
    /\ geolocation = FALSE
    /\ prefersDark \in BOOLEAN

ThemeNext ==
    \/ Mount
    \/ RefreshTick
    \/ \E r \in aqReqs : AqNetworkError(r)
    \/ \E r \in aqReqs : AqResponse(r, TRUE, TRUE)
    \/ \E r \in aqReqs, b \in ProviderBodies : AqBody(r, b.current, b.forecast)
    \/ \E q \in nameReqs : NameWeather(q, TRUE)
    \/ \E q \in nameReqs : NameReverse(q, TRUE)
    \/ \E matches \in BOOLEAN : SystemThemeChange(matches)
    \/ toggleDarkMode

ThemeSpec == ThemeInit /\ [][ThemeNext]_vars

-----------------------------------------------------------------------------
(* getDominantPollutant *)

\* lines 702-709: WHO guidelines
GUIDELINES == [PM2_5 |-> 15, PM10 |-> 45, NO2 |-> 25, SO2 |-> 40, O3 |-> 100, CO |-> 4000]

\* Object.entries(pollutants): the keys in the order the reading is built
\* with (lines 27-34, 462-469)
POLLUTANT_KEYS == <<"PM2_5", "PM10", "NO2", "SO2", "O3", "CO">>

NO_POLLUTANT == "null"

\* a fifth of each guideline
FIFTHS == [PM2_5 |-> 3, PM10 |-> 9, NO2 |-> 5, SO2 |-> 8, O3 |-> 20, CO |-> 800]

\* the readings the function is called with: every pollutant at a whole
\* number of fifths of its guideline, and one reading off that grid
Readings ==
    {[key \in DOMAIN GUIDELINES |-> level[key] * FIFTHS[key]] :
        level \in [DOMAIN GUIDELINES -> 0..MaxLevel]}
    \cup {[PM2_5 |-> 30, PM10 |-> 20, NO2 |-> 10, SO2 |-> 5, O3 |-> 50, CO |-> 2000]}

\* ratio > maxRatio for the ratios value / guideline and num / den: the
\* quotients of these integers are equal as doubles only when they are
\* equal as fractions
Exceeds(value, guideline, num, den) == value * den > num * guideline

\* a plausible slip: >= in place of >
ScanPollutants_LastTie(reading, upto) ==
    LET Scan[i \in 0..upto] ==
            IF i = 0
            THEN [num |-> 0, den |-> 1, dominant |-> NO_POLLUTANT]
            ELSE LET key == POLLUTANT_KEYS[i]
                     max == Scan[i - 1]
                 IN  IF ~Exceeds(max.num, max.den, reading[key], GUIDELINES[key])
                     THEN [num |-> reading[key], den |-> GUIDELINES[key],
                           dominant |-> key]
                     ELSE max
    IN  Scan[upto]

\* lines 711-720: the forEach over the first upto entries; maxRatio is kept
\* as the fraction num / den
ScanPollutants(reading, upto) ==
    LET Scan[i \in 0..upto] ==
            IF i = 0
            THEN [num |-> 0, den |-> 1, dominant |-> NO_POLLUTANT]
            ELSE LET key == POLLUTANT_KEYS[i]
                     max == Scan[i - 1]
                 IN  IF Exceeds(reading[key], GUIDELINES[key], max.num, max.den)
                     THEN [num |-> reading[key], den |-> GUIDELINES[key],
                           dominant |-> key]
                     ELSE max
    IN  Scan[upto]

\* lines 699-723; the reading is None when absent
getDominantPollutant(reading) ==
    IF reading = None
    THEN NO_POLLUTANT
    ELSE ScanPollutants(reading[1], Len(POLLUTANT_KEYS)).dominant

CallGetDominantPollutant(reading) ==
    /\ pcall' = [fn |-> "getDominantPollutant", arg |-> reading,
                 ret |-> getDominantPollutant(reading)]
    /\ UNCHANGED <<mainVars, storage, now>>

DominantNext ==
    \/ \E reading \in Readings : CallGetDominantPollutant(Some(reading))
    \/ CallGetDominantPollutant(None)

\* getDominantPollutant on readings of every kind
DominantSpec == IndexInit /\ [][DominantNext]_vars

-----------------------------------------------------------------------------
(* Properties of the refresh cycles *)

\* the location resolution of a cycle is still pending: getUserLocation has
\* not resolved (cycle 0), the watch of the tick has not answered (cycle k)
LocationPending(cycle) ==
    IF cycle = 0 THEN ~resolved ELSE \E w \in watches : w.cycle = cycle

\* C1 as stated: in every refresh cycle (the initial load and each tick) the
\* air-quality requests of fetchAirQuality are issued only after the cycle's
\* location resolution has completed or fallen back.
C1_LocationFirst ==
    \A r \in aqReqs : r.src \in {"init", "tick"} => ~LocationPending(r.cycle)

\* C1 as amended: the air-quality requests of the initial load are issued
\* only after getUserLocation has resolved; a tick calls fetchAirQuality in
\* the same step as updatePositionInBackground, without waiting for the
\* watch; the fetch that follows a move of more than 0.1 km is issued after
\* the watch of its cycle has answered.
C1_InitialLocationFirst ==
    /\ [](\A r \in aqReqs :
            /\ r.src = "init" => resolved
            /\ r.src = "bg" => ~(\E w \in watches : w.cycle = r.cycle))
    /\ [][RefreshTick =>
            /\ \E r \in aqReqs' \ aqReqs :
                   /\ r.src = "tick"
                   /\ r.cycle = ticks'
                   /\ r.lat = latitude /\ r.lon = longitude
            /\ geolocation => [cycle |-> ticks'] \in watches' \ watches]_vars

\* the initial requests are in flight after the 8 s timer resolved
\* getUserLocation while a geolocation request was still unanswered
C1_Witness ==
    /\ \E r \in aqReqs : r.src = "init"
    /\ resolved
    /\ attempt \in {"high", "low"}

\* the fetchAirQuality call r ends in this step
Ends(r) == r \in aqReqs /\ r \notin aqReqs'

\* the outcomes of a fetchAirQuality call the claim names: a response that is
\* not successful, a current payload without list[0]
FailsAsClaimed(r) ==
    \/ \E currentOk \in BOOLEAN, forecastOk \in BOOLEAN :
           ~(currentOk /\ forecastOk) /\ AqResponse(r, currentOk, forecastOk)
    \/ \E b \in ProviderBodies :
           /\ b.current.list = None \/ b.current.list[1] = << >>
           /\ AqBody(r, b.current, b.forecast)

\* C2: if either response is not successful, or the current payload has no
\* list[0] entry, fetchAirQuality fails as a whole: the call writes none of
\* currentAQI, pollutants, forecastData and lastUpdateTime, neither when its
\* responses arrive nor when it fails, and error is set to the banner message.
C2_FailureKeepsData ==
    [][\A r \in aqReqs :
          /\ AqResponse(r, TRUE, TRUE) => UNCHANGED <<dataVars, error>>
          /\ (Ends(r) /\ FailsAsClaimed(r)) =>
                /\ UNCHANGED <<currentAQI, pollutants, forecastData, lastUpdateTime>>
                /\ error' = "Failed to fetch air quality data. Please try again later."]_vars

\* the fetch of the first tick failed after the initial fetch had succeeded,
\* and the reading of the initial fetch is still shown under the banner
C2_Witness ==
    /\ ~geolocation
    /\ ticks = 1 /\ nextId = 3 /\ aqReqs = {}
    /\ shown.aqi = 1 /\ currentAQI # 0 /\ lastUpdateTime # None
    /\ error = AQ_ERROR

\* C3: after every successful fetchAirQuality, currentAQI, pollutants and
\* forecastData all come from that same fetch, also when its forecast list
\* is empty or missing: no state combines the current reading of one fetch
\* with the forecast of another.
C3_Supersedes ==
    [][\A r \in aqReqs, b \in ProviderBodies :
          (/\ b.current.list # None
           /\ b.current.list[1] # << >>
           /\ AqBody(r, b.current, b.forecast))
          => /\ currentAQI' = convertOpenWeatherMapAQI(b.current.list[1][1].aqi)
             /\ pollutants'.PM2_5 = b.current.list[1][1].components.pm2_5
             /\ forecastData' = IF b.forecast.list = None
                                THEN << >>
                                ELSE Slice(b.forecast.list[1])]_vars

\* C4: when both geolocation attempts fail, the coordinate becomes the cached
\* position whenever a cached record exists, even one older than 30 minutes,
\* and the default coordinate only when no cached record exists.
C4_FallbackAnyAge ==
    [][LowAccuracyError =>
          IF storage.kind = "record"
          THEN latitude' = storage.lat /\ longitude' = storage.lon
          ELSE latitude' = 407128 /\ longitude' = 0 - 740060]_vars

\* C5: overlapping fetchAirQuality calls are not prevented (a tick issues its
\* requests whatever is in flight) and their writes are last-write-wins: a
\* result is applied whenever it arrives, also after that of a later call.
C5_LastWriteWins ==
    /\ [][RefreshTick => aqReqs \subseteq aqReqs' /\ aqReqs' # aqReqs]_vars
    /\ [][\A r \in aqReqs :
            Ends(r) =>
                \A b \in ProviderBodies :
                    (/\ b.current.list # None
                     /\ b.current.list[1] # << >>
                     /\ AqBody(r, b.current, b.forecast))
                    => /\ currentAQI' = convertOpenWeatherMapAQI(b.current.list[1][1].aqi)
                       /\ lastUpdateTime' = Some(b.current.list[1][1].dt * 1000)
                       /\ shown'.aqi = r.id
                       /\ (b.forecast.list # None /\ b.forecast.list[1] # << >>)
                              => shown'.forecast = r.id]_vars

\* a stale call was applied after a later one: the index shown is that of
\* the earlier call, the chart shows the forecast of the later call
C5_Witness ==
    /\ shown.aqi # 0
    /\ shown.aqi < shown.chart
    /\ chart # None
    /\ chart[1] = Series(forecastData)

\* C6: getUserLocation always resolves: while it is pending the 8 s timer is
\* set, and the firing of the timer resolves it with latitude and longitude
\* as they are; it never stays pending, and initializeApp reaches
\* loading = false once its network calls complete.
C6_AlwaysResolves ==
    /\ []((pc = "locating" /\ ~resolved) =>
             \E t \in timers : t.kind = "geolocation" /\ t.deadline <= now + 8000)
    /\ [][GeolocationTimeout => resolved' /\ UNCHANGED <<latitude, longitude>>]_vars
    /\ <>(resolved /\ loading = FALSE)

\* the view left the loading state after the timer resolved getUserLocation
\* with the geolocation request still unanswered
C6_Witness ==
    /\ resolved
    /\ attempt \in {"high", "low"}
    /\ loading = FALSE
    /\ latitude = DEFAULT_LATITUDE /\ longitude = DEFAULT_LONGITUDE

\* the square of the distance between the current coordinate and a fix, in
\* cm^2, on the plane tangent at the current coordinate
SquaredDistance(fix) ==
    (Abs(fix.latitude - latitude) * 1112) * (Abs(fix.latitude - latitude) * 1112)
    + (Abs(fix.longitude - longitude) * 842) * (Abs(fix.longitude - longitude) * 842)

\* C7: in updatePositionInBackground a fix less than 0.1 km from the current
\* latitude/longitude changes nothing (coordinate and cache unchanged, no
\* fetch issued); a fix more than 0.1 km away replaces latitude/longitude,
\* is written to the cache, and triggers fetchLocationName, fetchAirQuality
\* and updateMap for the new coordinate.
C7_SignificantMove ==
    [][\A w \in watches, fix \in DeviceFixes :
          WatchFix(w, fix) =>
              IF SquaredDistance(fix) < 10000 * 10000
              THEN UNCHANGED <<latitude, longitude, storage, aqReqs, nameReqs,
                               mapReqs, mapView, nextId>>
              ELSE /\ SquaredDistance(fix) > 10000 * 10000
                   /\ latitude' = fix.latitude
                   /\ longitude' = fix.longitude
                   /\ storage' = Item(fix.latitude, fix.longitude, now)
                   /\ \E r \in aqReqs' \ aqReqs :
                          r.lat = fix.latitude /\ r.lon = fix.longitude
                   /\ \E q \in nameReqs' \ nameReqs :
                          q.lat = fix.latitude /\ q.lon = fix.longitude
                   /\ mapContainer => /\ mapView' = Some(fix)
                                      /\ fix \in mapReqs']_vars

\* after a move of more than 0.1 km: the coordinate and the cache hold the
\* fix, its air-quality and name requests are in flight, the map shows it
C7_Witness ==
    /\ \E r \in aqReqs : r.src = "bg" /\ r.lat = latitude /\ r.lon = longitude
    /\ \E q \in nameReqs : q.src = "bg" /\ q.lat = latitude /\ q.lon = longitude
    /\ storage = Item(latitude, longitude, now)
    /\ mapContainer
    /\ mapView = Some(Coord(latitude, longitude))

-----------------------------------------------------------------------------
(* Properties of the pure functions *)

\* the age of a stored record at a call of getCachedPosition
Age(arg) == arg.clock - arg.item.timestamp

\* C8: getCachedPosition returns the stored coordinates when a record exists
\* whose age (now minus timestamp) is below 30 minutes, and returns null when
\* the age is above 30 minutes or when no parseable record exists.
C8_CacheFreshness ==
    pcall.fn = "getCachedPosition" =>
        /\ (pcall.arg.item.kind = "record" /\ Age(pcall.arg) < 30 * 60 * 1000)
               => pcall.ret = Some(Coord(pcall.arg.item.lat, pcall.arg.item.lon))
        /\ (pcall.arg.item.kind = "record" /\ Age(pcall.arg) > 30 * 60 * 1000)
               => pcall.ret = None
        /\ pcall.arg.item.kind # "record" => pcall.ret = None

\* a record of 30 minutes minus 1 ms was read and its coordinates returned
C8_Witness ==
    /\ pcall.fn = "getCachedPosition"
    /\ pcall.arg.item.kind = "record"
    /\ Age(pcall.arg) = 30 * 60 * 1000 - 1
    /\ pcall.ret # None

\* the band of the claim: edges 50/100/150/200/300
ClaimedBand(v) ==
    IF v <= 50 THEN [color |-> GREEN, description |-> "Good"]
    ELSE IF v <= 100 THEN [color |-> YELLOW, description |-> "Moderate"]
    ELSE IF v <= 150 THEN [color |-> ORANGE,
                           description |-> "Unhealthy for Sensitive Groups"]
    ELSE IF v <= 200 THEN [color |-> RED, description |-> "Unhealthy"]
    ELSE IF v <= 300 THEN [color |-> PURPLE, description |-> "Very Unhealthy"]
    ELSE [color |-> GRAY, description |-> "Hazardous"]

\* what the 1..5 branch gives for the values 2..5
CategoryBand(v) ==
    CASE v = 2 -> [color |-> YELLOW, description |-> "Fair"]
      [] v = 3 -> [color |-> ORANGE, description |-> "Moderate"]
      [] v = 4 -> [color |-> RED, description |-> "Poor"]
      [] v = 5 -> [color |-> PURPLE, description |-> "Very Poor"]

\* C9 as stated: for every index value v, getAQIDescription(v) and
\* getAQIColor(v) return the label and colour of the band of v with edges
\* 50/100/150/200/300, and the label is one of the six band labels.
C9_EveryValue ==
    pcall.fn = "getAQI" => pcall.ret = ClaimedBand(pcall.arg)

\* C9 as amended: for every index value v outside 2..5 the label and the
\* colour are those of the band of v with edges 50/100/150/200/300; for v in
\* 2..5 they are Fair/yellow, Moderate/orange, Poor/red, Very Poor/purple.
C9_OutsideCategories ==
    pcall.fn = "getAQI" =>
        pcall.ret = IF pcall.arg \in 2..5
                    THEN CategoryBand(pcall.arg)
                    ELSE ClaimedBand(pcall.arg)

\* the first value of the second band was looked up: Moderate, yellow
C9_Witness ==
    /\ pcall.fn = "getAQI"
    /\ pcall.arg = 51
    /\ pcall.ret = [color |-> YELLOW, description |-> "Moderate"]

\* C10: convertOpenWeatherMapAQI maps the provider categories 1,2,3,4,5 to
\* 20,60,120,180,250 and returns any other number unchanged.
C10_Conversion ==
    pcall.fn = "convertOpenWeatherMapAQI" =>
        pcall.ret = CASE pcall.arg = 1 -> 20
                      [] pcall.arg = 2 -> 60
                      [] pcall.arg = 3 -> 120
                      [] pcall.arg = 4 -> 180
                      [] pcall.arg = 5 -> 250
                      [] OTHER -> pcall.arg

\* category 5 was converted to 250
C10_Witness ==
    /\ pcall.fn = "convertOpenWeatherMapAQI"
    /\ pcall.arg = 5
    /\ pcall.ret = 250

-----------------------------------------------------------------------------
(* Properties of the forecast *)

\* the fixed table of provider categories
TableValue(category) ==
    CASE category = 1 -> 20
      [] category = 2 -> 60
      [] category = 3 -> 120
      [] category = 4 -> 180
      [] category = 5 -> 250

\* C11: after a successful fetchAirQuality whose forecast response has n
\* entries, forecastData is exactly the first min(n, 24) entries in the
\* provider's order, and the chart series is the table value of each of
\* those entries in the same order.
C11_FirstPoints ==
    [][\A r \in aqReqs :
          Ends(r) =>
              \A b \in ProviderBodies :
                  (/\ b.current.list # None
                   /\ b.current.list[1] # << >>
                   /\ b.forecast.list # None
                   /\ AqBody(r, b.current, b.forecast))
                  => LET entries == b.forecast.list[1]
                         n == Len(entries)
                         k == IF n < 24 THEN n ELSE 24
                     IN  /\ Len(forecastData') = k
                         /\ \A i \in 1..k : forecastData'[i] = entries[i]
                         /\ (k > 0 /\ chartCanvas')
                                => chart' = Some([i \in 1..k |->
                                                     TableValue(entries[i].aqi)])]_vars


-----------------------------------------------------------------------------
(* Properties of the search field *)

\* a step in which the debounce timer fired and searchLocation was called
\* with the text of the field
Looks == typed.calls' = typed.calls + 1

\* C12: searchLocation routes a query of exactly five digits to the
\* postal-code lookup and any other accepted query to the free-text lookup
\* with a limit of 10; a non-numeric query shorter than 3 characters is
\* rejected: searchResults is left empty and no request is made.
C12_Routing ==
    [][Looks =>
          LET query == locationInput
              sent == searchReqs' \ searchReqs
          IN  IF Len(query) = 5 /\ \A i \in 1..5 : query[i] \in DIGITS
              THEN \E s \in sent :
                      sent = {s} /\ s.endpoint = "zip" /\ s.q = query
              ELSE IF /\ Len(query) < 3
                      /\ (Len(query) = 0 \/ \E i \in 1..Len(query) : query[i] \notin DIGITS)
              THEN searchResults' = << >> /\ sent = {}
              ELSE \E s \in sent :
                      sent = {s} /\ s.endpoint = "direct" /\ s.q = query /\ s.limit = 10]_vars


\* the answer holds no results (line 819)
Nothing(answer) ==
    answer.status = 404 \/ (answer.data.array /\ answer.data.items = << >>)

\* the one request a step sends is the relaxed lookup of this query
Relaxes(query) ==
    \E s \in searchReqs' \ searchReqs :
        /\ searchReqs' \ searchReqs = {s}
        /\ s.endpoint = "direct"
        /\ s.limit = 10
        /\ Len(s.q) = Len(query) - 1
        /\ \A i \in 1..Len(s.q) : s.q[i] = query[i]

\* text contains part, letters compared without regard to case
ContainsCaseless(text, part) ==
    \E k \in 0..(Len(text) - Len(part)) :
        \A i \in 1..Len(part) :
            toLowerCase(<<text[k + i]>>) = toLowerCase(<<part[i]>>)

\* the step ends the relaxed lookup s
EndsRelaxed(s) == s \in searchReqs /\ s.stage = "lenient" /\ s \notin searchReqs'

\* C13 as stated: whenever the first lookup returns no results and the
\* query is not a 5-digit postal code, one relaxed lookup is made with the
\* last character removed.
C13_RetryUnlessZip ==
    [][\A s \in searchReqs, answer \in SearchAnswers :
          (/\ s.stage = "first"
           /\ Nothing(answer)
           /\ ~(Len(s.query) = 5 /\ AllDigits(s.query))
           /\ SearchResponse(s, answer))
          => Relaxes(s.query)]_vars

\* C13: when the first lookup returns no results and the query is not a
\* 5-digit postal code and has at least 3 characters, exactly one further
\* free-text lookup is made with the last character removed; only relaxed
\* results whose name contains the original query, case-insensitively, are
\* accepted; the relaxed lookup is never retried.
C13_Retry ==
    /\ [][\A s \in searchReqs, answer \in SearchAnswers :
             (/\ s.stage = "first"
              /\ Nothing(answer)
              /\ ~(Len(s.query) = 5 /\ AllDigits(s.query))
              /\ Len(s.query) >= 3
              /\ SearchResponse(s, answer))
             => Relaxes(s.query)]_vars
    /\ [][\A s \in searchReqs :
             EndsRelaxed(s)
             => /\ searchReqs' \subseteq searchReqs
                /\ \A i \in 1..Len(searchResults') :
                       ContainsCaseless(searchResults'[i].name, s.query)]_vars

\* the relaxed lookup of "par" answered Paris and Pau, and Paris is listed
C13_Witness ==
    /\ searchResults = <<ItemResult(PARIS)>>
    /\ searchReqs = {}
    /\ ~isSearching


PendingSearchTimers == {t \in timers : t.kind = "search"}

\* C14: handleSearchInput debounces the lookup by 300 ms: every keystroke
\* cancels the timer of the previous one, so at most one timer is pending,
\* it fires 300 ms after the last keystroke, and a burst of keystrokes
\* produces exactly one lookup, made with the text of the field at the time
\* the timer fires.
C14_Debounce ==
    /\ [](/\ Cardinality(PendingSearchTimers) <= 1
          /\ \A t \in PendingSearchTimers : t.deadline = typed.last + 300
          /\ typed.bursts = typed.calls + Cardinality(PendingSearchTimers))
    /\ [][Looks =>
             /\ now' >= typed.last + 300
             /\ PendingSearchTimers' = {}
             /\ \A s \in searchReqs' \ searchReqs : s.query = locationInput /\ s.q = locationInput]_vars

\* a burst of three keystrokes has led to one lookup
C14_Witness ==
    /\ typed.keys = 3
    /\ typed.bursts = 1
    /\ typed.calls = 1
    /\ PendingSearchTimers = {}
    /\ searchReqs # {}


\* the step ends the searchLocation call that the lookup s belongs to
EndsSearch(s) ==
    /\ s \in searchReqs
    /\ \A u \in searchReqs' : u.call # s.call

\* C15: whenever a lookup fails (network error, or a non-success response of
\* the provider) or yields no results, searchLocation ends with searchError
\* non-empty, searchResults empty and isSearching false.
C15_FailureShown ==
    [][\A s \in searchReqs :
          /\ (EndsSearch(s) /\ SearchFailure(s))
                 => searchError' # "" /\ searchResults' = << >> /\ ~isSearching'
          /\ \A answer \in SearchAnswers :
                 (/\ EndsSearch(s)
                  /\ answer.status # 200 \/ Nothing(answer)
                  /\ SearchResponse(s, answer) \/ LenientResponse(s, answer))
                 => searchError' # "" /\ searchResults' = << >> /\ ~isSearching']_vars


\* C25: searchResults always reflects the most recently issued lookup: a
\* response to an older lookup that arrives after the newest lookup was
\* answered does not overwrite the results or the error of the newest one.
C25_NewestLookupWins ==
    [][\A s \in searchReqs :
          (/\ EndsSearch(s)
           /\ s.call < typed.sent
           /\ \A u \in searchReqs : u.call <= s.call)
          => UNCHANGED <<searchResults, searchError>>]_vars

\* C26: after selectLocation has cleared the search, searchResults stays
\* empty until the user types again: neither a debounce timer still pending
\* nor a lookup still in flight at selection time repopulates the list.
C26_ClearedStaysEmpty ==
    [][(/\ typed.picks > 0
        /\ locationInput = << >>
        /\ searchResults = << >>
        /\ typed.keys' = typed.keys)
       => searchResults' = << >>]_vars

-----------------------------------------------------------------------------
(* Properties of the error banner *)

\* an outcome of the geolocation attempts: the API is absent, a request
\* fails (denied, unavailable, its own timeout), the 8 s timer fires, a
\* device answers, a background watch fails or is timed out
GeolocationOutcome ==
    \/ Mount /\ ~geolocation
    \/ HighAccuracyError
    \/ LowAccuracyError
    \/ GeolocationTimeout
    \/ \E fix \in DeviceFixes : GetPositionSuccess(fix)
    \/ \E w \in watches : WatchError(w)
    \/ WatchTimeout
    \/ \E w \in watches, fix \in DeviceFixes : WatchFix(w, fix)

\* the step ends a fetchAirQuality call
EndsFetch == \E r \in aqReqs : \A u \in aqReqs' : u.id # r.id

\* C16: no outcome of geolocation ever sets the error banner; error is
\* changed only by a failure of the air-quality fetch.
C16_SilentGeolocation ==
    /\ [][GeolocationOutcome => error' = error]_vars
    /\ [][error' # error
             => error' = "Failed to fetch air quality data. Please try again later."
                /\ EndsFetch]_vars

\* both position requests failed with nothing cached, the default location
\* is shown and the banner is empty
C16_Witness ==
    /\ geolocation
    /\ attempt = "done"
    /\ storage = NoItem
    /\ pc = "ready"
    /\ latitude = DEFAULT_LATITUDE
    /\ error = NO_ERROR

\* C23: the error banner does not outlive the failure that caused it: after
\* a fetchAirQuality call of a later refresh tick has completed
\* successfully (its reading is the one displayed), error is null.
C23_BannerCleared ==
    [][\A r \in aqReqs :
          (/\ r.src = "tick"
           /\ \A u \in aqReqs' : u.id # r.id
           /\ shown'.aqi = r.id)
          => error' = NO_ERROR]_vars

-----------------------------------------------------------------------------
(* Properties of the requests *)

FetchIds == {r.id : r \in aqReqs}

\* C18: fetchAirQuality is not retried when it fails: the step that ends a
\* fetch sends no request, and a new air-quality request is sent only by
\* the start of initializeApp's fetch, by a tick of the refresh interval or
\* by a background fix that moved the location.
C18_NoRetry ==
    /\ [][EndsFetch => FetchIds' \subseteq FetchIds /\ nextId' = nextId]_vars
    /\ [][~(FetchIds' \subseteq FetchIds)
             => \/ pc # "fetching" /\ pc' = "fetching"
                \/ ticks' = ticks + 1
                \/ \E w \in watches, fix \in DeviceFixes : WatchFix(w, fix)]_vars

\* the initial fetch failed; nothing is in flight and nothing was asked
\* again while the first tick is awaited
C18_Witness ==
    /\ pc = "ready"
    /\ ticks = 0
    /\ error = AQ_ERROR
    /\ currentAQI = 0
    /\ aqReqs = {}
    /\ nextId = 2


-----------------------------------------------------------------------------
(* Properties of the coordinate *)

\* C20: once getUserLocation's promise has resolved (cache hit, position
\* received, failure, or the 8 s timer), the position requests of
\* getUserLocation no longer modify latitude/longitude.
C20_ResolvedIsFinal ==
    [][(/\ resolved
        /\ \/ \E fix \in DeviceFixes : GetPositionSuccess(fix)
           \/ HighAccuracyError
           \/ LowAccuracyError)
       => UNCHANGED <<latitude, longitude>>]_vars


-----------------------------------------------------------------------------
(* Properties of the theme *)

ThemeChange == toggleDarkMode \/ \E matches \in BOOLEAN : SystemThemeChange(matches)

\* C19: a theme change (the system's change event or toggleDarkMode)
\* updates darkMode and, when a chart exists, redraws it from the existing
\* forecastData; it sends no request and leaves currentAQI, pollutants,
\* forecastData, lastUpdateTime, latitude and longitude unchanged.
C19_ThemeOnly ==
    /\ [][ThemeChange =>
             /\ darkMode' = IF prefersDark' # prefersDark THEN prefersDark' ELSE ~darkMode
             /\ IF chart # None
                THEN /\ chart' = Some([i \in 1..Len(forecastData) |->
                                          TableValue(forecastData[i].aqi)])
                     /\ chartDark' = darkMode'
                ELSE chart' = None
             /\ UNCHANGED <<currentAQI, pollutants, forecastData, lastUpdateTime,
                            latitude, longitude>>
             /\ UNCHANGED <<aqReqs, nameReqs, mapReqs, searchReqs, watches, nextId>>]_vars
    /\ [](chart # None => chartDark = darkMode)

\* the theme was changed away from the system's while the chart of the
\* initial fetch is shown
C19_Witness ==
    /\ darkMode # prefersDark
    /\ chart # None
    /\ chartDark = darkMode
    /\ Len(forecastData) > 0
    /\ pc = "ready"


-----------------------------------------------------------------------------
(* Properties of the dominant pollutant *)

\* the place of a pollutant in the order PM2_5, PM10, NO2, SO2, O3, CO
Rank(key) ==
    CASE key = "PM2_5" -> 1 [] key = "PM10" -> 2 [] key = "NO2" -> 3
      [] key = "SO2" -> 4 [] key = "O3" -> 5 [] key = "CO" -> 6

Guideline(key) ==
    CASE key = "PM2_5" -> 15 [] key = "PM10" -> 45 [] key = "NO2" -> 25
      [] key = "SO2" -> 40 [] key = "O3" -> 100 [] key = "CO" -> 4000

Pollutants == {"PM2_5", "PM10", "NO2", "SO2", "O3", "CO"}

\* the ratio of pollutant a is at most (less than) that of pollutant b
AtMost(p, a, b) == p[a] * Guideline(b) <= p[b] * Guideline(a)
Below(p, a, b) == p[a] * Guideline(b) < p[b] * Guideline(a)

\* C17: getDominantPollutant returns the pollutant with the largest ratio
\* of concentration to guideline (PM2_5 15, PM10 45, NO2 25, SO2 40, O3 100,
\* CO 4000); among equal ratios the first in the order PM2_5, PM10, NO2,
\* SO2, O3, CO; and null when the reading is absent or every ratio is 0.
C17_Dominant ==
    pcall.fn = "getDominantPollutant" =>
        IF pcall.arg = None
        THEN pcall.ret = "null"
        ELSE LET p == pcall.arg[1]
             IN  IF \A key \in Pollutants : p[key] = 0
                 THEN pcall.ret = "null"
                 ELSE /\ pcall.ret \in Pollutants
                      /\ \A key \in Pollutants : AtMost(p, key, pcall.ret)
                      /\ \A key \in Pollutants :
                             Rank(key) < Rank(pcall.ret) => Below(p, key, pcall.ret)

\* PM10 and O3 are both at two fifths of their guidelines, above the
\* others, and PM10 is returned
C17_Witness ==
    /\ pcall.fn = "getDominantPollutant"
    /\ pcall.arg # None
    /\ pcall.arg[1].PM10 = 18 /\ pcall.arg[1].O3 = 40
    /\ pcall.arg[1].PM2_5 = 3 /\ pcall.arg[1].CO = 800
    /\ pcall.ret = "PM10"


-----------------------------------------------------------------------------
(* Properties of the background watch *)

WatchTimers == {t \in timers : t.kind = "watch"}

\* C21: the watch registered by updatePositionInBackground is cleared on
\* its first position, on its first error, or when its 12-second bound
\* elapses: an active watch is always covered by its pending 12 s timer,
\* each of the three outcomes removes it, and none of them registers one.
C21_WatchTornDown ==
    /\ [](\A w \in watches :
             \E t \in WatchTimers : t.id = w.cycle /\ t.deadline <= now + 12000)
    /\ [][\A w \in watches :
             (\/ \E fix \in DeviceFixes : WatchFix(w, fix)
              \/ WatchError(w))
             => watches' = watches \ {w}]_vars
    /\ [][WatchTimers' # WatchTimers /\ WatchTimers' \subseteq WatchTimers
             => /\ watches' \subseteq watches
                /\ \A t \in WatchTimers \ WatchTimers', w \in watches' : w.cycle # t.id]_vars

\* the 12 s timer of the first tick's watch has fired and no watch is active
C21_Witness ==
    /\ geolocation
    /\ ticks = 1
    /\ storage = NoItem
    /\ watches = {}
    /\ WatchTimers = {}


-----------------------------------------------------------------------------
(* Properties of the selected location *)

\* C22: a location chosen through search persists: once selectLocation has
\* set latitude/longitude, no step other than a further selection changes
\* them -- neither a refresh tick nor a background position update.
C22_SelectionPersists ==
    [][(typed.picks > 0 /\ typed.picks' = typed.picks)
       => UNCHANGED <<latitude, longitude>>]_vars


\* no air-quality fetch and no geolocation request is in flight
Quiet ==
    /\ aqReqs = {}
    /\ attempt \notin {"high", "low"}
    /\ watches = {}

\* C24: whenever no air-quality fetch and no geolocation request is in
\* flight, the displayed currentAQI, pollutants and forecastData are the
\* result of a request issued for the current latitude/longitude.
C24_DataOfCoordinate ==
    (Quiet /\ shown.aqi # 0)
        => /\ shown.at = Coord(latitude, longitude)
           /\ shown.forecast # 0 => shown.forecastAt = Coord(latitude, longitude)


-----------------------------------------------------------------------------
(* Properties of the map *)

\* C27: whenever no updateMap call is in flight, the pollution circle is
\* centred on the coordinate of the marker and the map view, also after
\* updateMap calls for different coordinates overlapped and their pollution
\* requests were answered out of order.
C27_CircleAtMarker ==
    (mapReqs = {} /\ pollutionLayer # None /\ mapView # None)
        => pollutionLayer[1].center = mapView[1]

=============================================================================
